---- MODULE Spec2Model ----
(***************************************************************************)
(* Model of the pivot / band / score pipeline of doc2struct                *)
(* (src/src/doc2struct/main.py).                                           *)
(*                                                                         *)
(* Arrays of the program (numpy arrays, Python lists) are functions with   *)
(* the 0-based domain 0..n-1, so that chunk ids and pivot local indexes    *)
(* are the program's own.  A vector is a pair of integers in fixed point:  *)
(* the similarity 1.0 is One, and a dot product of two vectors is their    *)
(* similarity in units of 1/One.  The embedder normalises in float32, so   *)
(* a vector's squared norm is One up to NormTol.  Scores that the program  *)
(* divides (means, min-max normalisation) are exact fractions <<num, den>> *)
(* with den > 0.                                                           *)
(***************************************************************************)
EXTENDS Integers, Sequences, FiniteSets, TLC

\* ---------------------------------------------------------------- bounds
MaxN == 3            \* largest corpus (number of chunks)
MaxPivotsArg == 4    \* largest max_pivots argument of a direct call
MaxK == 2            \* largest k argument of a direct call

\* ------------------------------------------------------ program constants
NUM_PIVOTS == 12
KNN == 16
QDen == 4            \* quantile fractions are multiples of 1/QDen
One == 25            \* fixed-point 1.0 of a similarity
NormTol == 1         \* | v.v - One | <= NormTol for an embedded vector
EpsInvUnits == 4000000   \* 1e-8 = (1/One) / EpsInvUnits

\* --------------------------------------------------------- array helpers
Size(a) == Cardinality(DOMAIN a)

Range(a) == {a[i] : i \in DOMAIN a}

Arr(s) == [i \in 0..(Len(s) - 1) |-> s[i + 1]]

Push(a, x) == [i \in 0..Size(a) |-> IF i < Size(a) THEN a[i] ELSE x]

Min(a, b) == IF a <= b THEN a ELSE b

Max(a, b) == IF a >= b THEN a ELSE b

\* np.argmin / np.argmax: the first index of an extreme value
ArgMin(a) ==
    CHOOSE i \in DOMAIN a :
        /\ \A j \in DOMAIN a : a[i] <= a[j]
        /\ \A j \in DOMAIN a : j < i => a[j] > a[i]

ArgMax(a) ==
    CHOOSE i \in DOMAIN a :
        /\ \A j \in DOMAIN a : a[i] >= a[j]
        /\ \A j \in DOMAIN a : j < i => a[j] < a[i]

\* sorted(list(set(xs))): the distinct values in ascending order
SortedSet(S) ==
    [i \in 0..(Cardinality(S) - 1) |->
        CHOOSE x \in S : Cardinality({y \in S : y < x}) = i]

\* the values of an integer array in ascending / descending order
AscVals(a) ==
    [r \in 0..(Size(a) - 1) |->
        CHOOSE x \in Range(a) :
            /\ Cardinality({j \in DOMAIN a : a[j] < x}) <= r
            /\ r < Cardinality({j \in DOMAIN a : a[j] <= x})]

DescVals(a) ==
    [r \in 0..(Size(a) - 1) |->
        CHOOSE x \in Range(a) :
            /\ Cardinality({j \in DOMAIN a : a[j] > x}) <= r
            /\ r < Cardinality({j \in DOMAIN a : a[j] >= x})]

RECURSIVE SumTo(_, _)
SumTo(a, n) == IF n = 0 THEN 0 ELSE a[n - 1] + SumTo(a, n - 1)

CeilSqrt(n) == CHOOSE r \in 0..n : r * r >= n /\ (r = 0 \/ (r - 1) * (r - 1) < n)

\* ------------------------------------------------------------- fractions
RECURSIVE Gcd(_, _)
Gcd(a, b) == IF b = 0 THEN a ELSE Gcd(b, a % b)

Abs(x) == IF x < 0 THEN -x ELSE x

Reduce(p) ==
    LET g == Gcd(Abs(p[1]), p[2])
    IN  <<p[1] \div g, p[2] \div g>>

FLess(p, q) == p[1] * q[2] < q[1] * p[2]

FSub(p, q) == <<p[1] * q[2] - q[1] * p[2], p[2] * q[2]>>

FDiv(p, q) == <<p[1] * q[2], p[2] * q[1]>>

FZero == <<0, 1>>

\* ------------------------------------------------------------- vectors
VecDomain == {<<5, 0>>, <<5, 1>>, <<3, 4>>, <<0, 5>>, <<-5, 1>>}

Dot(u, v) == u[1] * v[1] + u[2] * v[2]

Corpora == UNION {[0..(n - 1) -> VecDomain] : n \in 1..MaxN}

\* ------------------------------------------- greedy_farthest_pivots (pure parts)
\* n * centroid: the column sums.  argmin(vecs @ centroid) is argmin(vecs @ (n * centroid))
CentroidN(v) ==
    <<SumTo([i \in DOMAIN v |-> v[i][1]], Size(v)),
      SumTo([i \in DOMAIN v |-> v[i][2]], Size(v))>>

SeedOf(v) == ArgMin([i \in DOMAIN v |-> Dot(v[i], CentroidN(v))])

\* vecs @ vecs[p]
SimsTo(v, p) == [i \in DOMAIN v |-> Dot(v[i], v[p])]

\* mutant: np.minimum in place of np.maximum
UpdateNearest_min(ns, cand) == [i \in DOMAIN ns |-> Min(ns[i], cand[i])]

\* np.maximum(nearest_sim, cand)
UpdateNearest(ns, cand) == [i \in DOMAIN ns |-> Max(ns[i], cand[i])]

\* mutant: the repetition test always fails
PickIsPivot_never(pick, s) == FALSE

\* pick in pivots
PickIsPivot(pick, s) == pick \in Range(s)

\* mutant: the list is returned in selection order
GreedyResult_unsorted(s) == s

\* sorted(list(set(pivots)))
GreedyResult(s) == SortedSet(Range(s))

\* ------------------------------------------------- assign_to_nearest_pivot
PivotSims(v, piv) == [i \in DOMAIN v |-> [j \in DOMAIN piv |-> Dot(v[i], v[piv[j]])]]

\* mutant: the last of several maxima
BestOf_last(row) ==
    CHOOSE j \in DOMAIN row :
        /\ \A c \in DOMAIN row : row[j] >= row[c]
        /\ \A c \in DOMAIN row : c > j => row[c] < row[j]

\* mutant: argmin in place of argmax
BestOf_argmin(row) == ArgMin(row)

\* sims.argmax(axis=1), one row
BestOf(row) == ArgMax(row)

assign_to_nearest_pivot(v, piv) ==
    IF Size(piv) = 0
    THEN [best |-> <<>>, dist |-> <<>>]
    ELSE LET sims == PivotSims(v, piv)
             best == [i \in DOMAIN v |-> BestOf(sims[i])]
         IN  [best |-> best,
              dist |-> [i \in DOMAIN v |-> One - sims[i][best[i]]]]

\* ---------------------------------------------------------- knn_redundancy
\* idx.search(vecs, k_eff), row i: the k_eff highest inner products with vecs[i],
\* descending (the whole corpus is in the index, vecs[i] itself included)
SearchRow(v, i, k_eff) ==
    LET d == DescVals(SimsTo(v, i))
    IN  [r \in 0..(k_eff - 1) |-> d[r]]

\* sims[:, 1:] if sims.shape[1] > 1 else sims
DropSelf(row) ==
    IF Size(row) > 1 THEN [r \in 0..(Size(row) - 2) |-> row[r + 1]] ELSE row

\* the mean of each row, as the fraction <<sum, columns>>
knn_redundancy(v, k) ==
    LET k_eff == Min(k + 1, Size(v))
        rows  == [i \in DOMAIN v |-> DropSelf(SearchRow(v, i, k_eff))]
        cols  == IF k_eff > 1 THEN k_eff - 1 ELSE k_eff
    IN  IF Size(v) * cols = 0
        THEN [i \in DOMAIN v |-> FZero]
        ELSE [i \in DOMAIN v |-> <<SumTo(rows[i], cols), cols>>]

\* ------------------------------------------------------------- minmax_norm
FMin(x) == CHOOSE a \in Range(x) : \A b \in Range(x) : ~FLess(b, a)

FMax(x) == CHOOSE a \in Range(x) : \A b \in Range(x) : ~FLess(a, b)

\* mutant: the minimum is not subtracted
minmax_norm_nolo(x) ==
    IF Size(x) = 0
    THEN x
    ELSE LET d == Reduce(FSub(FMax(x), FMin(x)))
         IN  IF d[1] * EpsInvUnits < d[2]
             THEN [i \in DOMAIN x |-> FZero]
             ELSE [i \in DOMAIN x |-> Reduce(FDiv(x[i], d))]

\* x is an array of fractions in units of 1/One; hi - lo < 1e-8 is
\* (hi - lo) * EpsInvUnits < 1 in these units
minmax_norm(x) ==
    IF Size(x) = 0
    THEN x
    ELSE LET lo == FMin(x)
             hi == FMax(x)
             d  == Reduce(FSub(hi, lo))
         IN  IF d[1] * EpsInvUnits < d[2]
             THEN [i \in DOMAIN x |-> FZero]
             ELSE [i \in DOMAIN x |-> Reduce(FDiv(FSub(x[i], lo), d))]

\* novelty_norm * (1.0 - redundancy_norm)
EnergyOf(nov, red) == Reduce(<<nov[1] * (red[2] - red[1]), nov[2] * red[2]>>)

\* ------------------------------------------------- compute_bands_for_pivot
\* np.quantile(a, qn / QDen), linear interpolation, times QDen; a is sorted
QuantileQ(a, qn) ==
    LET pos == qn * (Size(a) - 1)
        lo  == pos \div QDen
        hi  == Min(lo + 1, Size(a) - 1)
    IN  QDen * a[lo] + (pos % QDen) * (a[hi] - a[lo])

\* mutant: x < q in place of x <= q
band_of_strict(x, qs) ==
    IF \E b \in DOMAIN qs : QDen * x < qs[b]
    THEN CHOOSE b \in DOMAIN qs :
            /\ QDen * x < qs[b]
            /\ \A c \in DOMAIN qs : c < b => QDen * x >= qs[c]
    ELSE Size(qs)

\* mutant: x >= q in place of x <= q
band_of_flipped(x, qs) ==
    IF \E b \in DOMAIN qs : QDen * x >= qs[b]
    THEN CHOOSE b \in DOMAIN qs :
            /\ QDen * x >= qs[b]
            /\ \A c \in DOMAIN qs : c < b => QDen * x < qs[c]
    ELSE Size(qs)

\* band_of: the first cut-point the distance does not exceed; qs is times QDen
band_of(x, qs) ==
    IF \E b \in DOMAIN qs : QDen * x <= qs[b]
    THEN CHOOSE b \in DOMAIN qs :
            /\ QDen * x <= qs[b]
            /\ \A c \in DOMAIN qs : c < b => QDen * x > qs[c]
    ELSE Size(qs)

compute_bands_for_pivot(dists, quantiles) ==
    IF Size(dists) = 0
    THEN <<>>
    ELSE LET qs == [b \in DOMAIN quantiles |-> QuantileQ(AscVals(dists), quantiles[b])]
         IN  [i \in DOMAIN dists |-> band_of(dists[i], qs)]

\* process_file lines 212-217: every pivot group banded on its own distances
BandIds(assign, dist, piv, quantiles) ==
    [i \in DOMAIN assign |->
        IF assign[i] \in DOMAIN piv
        THEN LET mask   == SortedSet({j \in DOMAIN assign : assign[j] = assign[i]})
                 pdists == [r \in DOMAIN mask |-> dist[mask[r]]]
                 r      == CHOOSE q \in DOMAIN mask : mask[q] = i
             IN  compute_bands_for_pivot(pdists, quantiles)[r]
        ELSE 0]

\* ------------------------------------------------------------ process_file
BAND_QUANTILES == Arr(<<1, 2, 3>>)

\* mutant: energy ascending
SortsBefore_energyAsc(a, b) ==
    \/ a.pivot_local_index < b.pivot_local_index
    \/ /\ a.pivot_local_index = b.pivot_local_index
       /\ a.band < b.band
    \/ /\ a.pivot_local_index = b.pivot_local_index
       /\ a.band = b.band
       /\ FLess(a.energy, b.energy)

\* the keys of sort_values: pivot_local_index and band ascending, energy descending
SortsBefore(a, b) ==
    \/ a.pivot_local_index < b.pivot_local_index
    \/ /\ a.pivot_local_index = b.pivot_local_index
       /\ a.band < b.band
    \/ /\ a.pivot_local_index = b.pivot_local_index
       /\ a.band = b.band
       /\ FLess(b.energy, a.energy)

\* DataFrame(records).sort_values(...): rows with equal keys keep their order
sort_values(recs) ==
    LET pos(i) == Cardinality({j \in DOMAIN recs :
                     \/ SortsBefore(recs[j], recs[i])
                     \/ /\ ~SortsBefore(recs[i], recs[j])
                        /\ j < i})
    IN  [r \in DOMAIN recs |-> recs[CHOOSE i \in DOMAIN recs : pos(i) = r]]

\* the quantile lists of direct calls of compute_bands_for_pivot
QuantileLists == {Arr(<<1, 2, 3>>), Arr(<<2>>), Arr(<<0, 4>>), Arr(<<1, 1>>)}

VARIABLES
    pc,              \* position in process_file / in the called function
    vecs,            \* the embedded corpus
    max_pivots_arg,  \* greedy_farthest_pivots: the caller's max_pivots
    max_pivots,      \* greedy_farthest_pivots: max_pivots after the cap
    sel,             \* greedy_farthest_pivots: its list `pivots`, in selection order
    nearest_sim,     \* greedy_farthest_pivots: nearest_sim
    it,              \* greedy_farthest_pivots: iterations of the loop started
    pivots,          \* the list greedy_farthest_pivots returned
    assign_idx,      \* per chunk: local index of its pivot
    novelty_dist,    \* per chunk: One - similarity to its pivot
    knn_k,           \* knn_redundancy: its argument k
    redundancy_sim,  \* per chunk: what knn_redundancy returned
    novelty_norm,    \* per chunk: minmax_norm(novelty_dist)
    redundancy_norm, \* per chunk: minmax_norm(redundancy_sim)
    energy,          \* per chunk
    quantiles,       \* compute_bands_for_pivot: its argument quantiles (numerators over QDen)
    band_ids,        \* per chunk
    records,         \* the list `records`, in chunk order
    df,              \* the sorted DataFrame
    jsonl,           \* the lines of structured_dataset.jsonl
    train_csv        \* the rows of train.csv

greedyVars == <<max_pivots_arg, max_pivots, sel, nearest_sim, it, pivots>>

assignVars == <<assign_idx, novelty_dist>>

scoreVars == <<knn_k, redundancy_sim, novelty_norm, redundancy_norm, energy>>

bandVars == <<quantiles, band_ids>>

outVars == <<records, df, jsonl, train_csv>>

vars == <<pc, vecs, greedyVars, assignVars, scoreVars, bandVars, outVars>>

N == Size(vecs)

Init ==
    /\ pc = "start"
    /\ vecs \in Corpora
    /\ max_pivots_arg = 0
    /\ max_pivots = 0
    /\ sel = <<>>
    /\ nearest_sim = <<>>
    /\ it = 0
    /\ pivots = <<>>
    /\ assign_idx = <<>>
    /\ novelty_dist = <<>>
    /\ knn_k = 0
    /\ redundancy_sim = <<>>
    /\ novelty_norm = <<>>
    /\ redundancy_norm = <<>>
    /\ energy = <<>>
    /\ quantiles = <<>>
    /\ band_ids = <<>>
    /\ records = <<>>
    /\ df = <<>>
    /\ jsonl = <<>>
    /\ train_csv = <<>>

\* greedy_farthest_pivots, lines 105-115: the cap, the seed, the first nearest_sim
GreedyCall(mp) ==
    /\ pc = "start"
    /\ max_pivots_arg' = mp
    /\ IF N = 0
       THEN /\ pc' = "assign"
            /\ pivots' = <<>>
            /\ UNCHANGED <<max_pivots, sel, nearest_sim, it>>
       ELSE /\ max_pivots' = Min(mp, Max(1, N))
            /\ sel' = Arr(<<SeedOf(vecs)>>)
            /\ nearest_sim' = SimsTo(vecs, SeedOf(vecs))
            /\ it' = 1
            /\ pc' = "greedy_loop"
            /\ UNCHANGED pivots
    /\ UNCHANGED <<vecs, assignVars, scoreVars, bandVars, outVars>>

\* one iteration whose argmin pick is not yet a pivot (lines 118-119, 125-128)
GreedyPickArgmin ==
    /\ pc = "greedy_loop"
    /\ it < max_pivots
    /\ LET pick == ArgMin(nearest_sim)
       IN  /\ ~PickIsPivot(pick, sel)
           /\ sel' = Push(sel, pick)
           /\ nearest_sim' = UpdateNearest(nearest_sim, SimsTo(vecs, pick))
    /\ it' = it + 1
    /\ UNCHANGED <<pc, vecs, max_pivots_arg, max_pivots, pivots>>
    /\ UNCHANGED <<assignVars, scoreVars, bandVars, outVars>>

\* one iteration whose argmin pick is already a pivot (lines 119-128):
\* np.random.choice over the remaining indexes, or break when none remains
GreedyPickRandom ==
    /\ pc = "greedy_loop"
    /\ it < max_pivots
    /\ PickIsPivot(ArgMin(nearest_sim), sel)
    /\ LET remaining == {i \in DOMAIN vecs : i \notin Range(sel)}
       IN  IF remaining = {}
           THEN /\ pc' = "greedy_return"
                /\ UNCHANGED <<sel, nearest_sim, it>>
           ELSE \E pick \in remaining :
                /\ sel' = Push(sel, pick)
                /\ nearest_sim' = UpdateNearest(nearest_sim, SimsTo(vecs, pick))
                /\ it' = it + 1
                /\ pc' = pc
    /\ UNCHANGED <<vecs, max_pivots_arg, max_pivots, pivots>>
    /\ UNCHANGED <<assignVars, scoreVars, bandVars, outVars>>

\* the loop is over (range exhausted, or break): line 129
GreedyReturn ==
    /\ \/ pc = "greedy_loop" /\ it >= max_pivots
       \/ pc = "greedy_return"
    /\ pivots' = GreedyResult(sel)
    /\ pc' = "assign"
    /\ UNCHANGED <<vecs, max_pivots_arg, max_pivots, sel, nearest_sim, it>>
    /\ UNCHANGED <<assignVars, scoreVars, bandVars, outVars>>

\* process_file line 199
Assign ==
    /\ pc = "assign"
    /\ assign_idx' = assign_to_nearest_pivot(vecs, pivots).best
    /\ novelty_dist' = assign_to_nearest_pivot(vecs, pivots).dist
    /\ pc' = "knn"
    /\ UNCHANGED <<vecs, greedyVars, scoreVars, bandVars, outVars>>

\* process_file line 202
KnnCall(k) ==
    /\ pc = "knn"
    /\ knn_k' = k
    /\ redundancy_sim' = knn_redundancy(vecs, k)
    /\ pc' = "score"
    /\ UNCHANGED <<vecs, greedyVars, assignVars, novelty_norm, redundancy_norm, energy>>
    /\ UNCHANGED <<bandVars, outVars>>

\* process_file lines 205-209
Score ==
    /\ pc = "score"
    /\ novelty_norm' = minmax_norm([i \in DOMAIN novelty_dist |-> <<novelty_dist[i], 1>>])
    /\ redundancy_norm' = minmax_norm(redundancy_sim)
    /\ energy' = [i \in DOMAIN vecs |-> EnergyOf(novelty_norm'[i], redundancy_norm'[i])]
    /\ pc' = "bands"
    /\ UNCHANGED <<vecs, greedyVars, assignVars, knn_k, redundancy_sim, bandVars, outVars>>

\* process_file lines 212-217
BandsCall(q) ==
    /\ pc = "bands"
    /\ quantiles' = q
    /\ band_ids' = BandIds(assign_idx, novelty_dist, pivots, q)
    /\ pc' = "records"
    /\ UNCHANGED <<vecs, greedyVars, assignVars, scoreVars, outVars>>

\* process_file lines 221-237 (text, pivot_text and source are the chunk's,
\* the pivot's and the file's strings, which id and pivot_id stand for)
BuildRecords ==
    /\ pc = "records"
    /\ records' = [i \in DOMAIN vecs |->
                     [id                |-> i,
                      pivot_id          |-> pivots[assign_idx[i]],
                      pivot_local_index |-> assign_idx[i],
                      band              |-> band_ids[i],
                      novelty           |-> novelty_norm[i],
                      redundancy        |-> redundancy_norm[i],
                      energy            |-> energy[i]]]
    /\ pc' = "frame"
    /\ UNCHANGED <<vecs, greedyVars, assignVars, scoreVars, bandVars, df, jsonl, train_csv>>

\* process_file line 240
SortFrame ==
    /\ pc = "frame"
    /\ df' = sort_values(records)
    /\ pc' = "write"
    /\ UNCHANGED <<vecs, greedyVars, assignVars, scoreVars, bandVars, records, jsonl, train_csv>>

\* process_file lines 249-255: the jsonl from `records`, the csv from df
WriteFiles ==
    /\ pc = "write"
    /\ jsonl' = records
    /\ train_csv' = [r \in DOMAIN df |-> [text |-> df[r].id, label |-> df[r].pivot_local_index]]
    /\ pc' = "done"
    /\ UNCHANGED <<vecs, greedyVars, assignVars, scoreVars, bandVars, records, df>>

\* process_file line 195
SelectPivots == GreedyCall(Min(NUM_PIVOTS, Max(1, CeilSqrt(N))))

\* process_file line 202
Redundancy == KnnCall(KNN)

\* process_file lines 212-217, with the configured quantiles
Bands == BandsCall(BAND_QUANTILES)

\* direct calls with arguments of the caller's choice
CallGreedy == \E mp \in 1..MaxPivotsArg : GreedyCall(mp)

CallKnn == \E k \in 1..MaxK : KnnCall(k)

CallBands == \E q \in QuantileLists : BandsCall(q)

\* process_file
Next ==
    \/ SelectPivots
    \/ GreedyPickArgmin
    \/ GreedyPickRandom
    \/ GreedyReturn
    \/ Assign
    \/ Redundancy
    \/ Score
    \/ Bands
    \/ BuildRecords
    \/ SortFrame
    \/ WriteFiles

\* the functions of the pipeline called one after the other with free arguments
NextFn ==
    \/ CallGreedy
    \/ GreedyPickArgmin
    \/ GreedyPickRandom
    \/ GreedyReturn
    \/ Assign
    \/ CallKnn
    \/ Score
    \/ CallBands

Spec == Init /\ [][Next]_vars

SpecFn == Init /\ [][NextFn]_vars

\* ================================================================ properties
Returned == pc \notin {"start", "greedy_loop", "greedy_return"}

Assigned == pc \in {"knn", "score", "bands", "records", "frame", "write", "done"}

KnnDone == pc \in {"score", "bands", "records", "frame", "write", "done"}

Scored == pc \in {"bands", "records", "frame", "write", "done"}

Banded == pc \in {"records", "frame", "write", "done"}

AllSame == \A i, j \in DOMAIN vecs : vecs[i] = vecs[j]

Sim(i, j) == Dot(vecs[i], vecs[j])

InUnit(f) == f[2] > 0 /\ 0 <= f[1] /\ f[1] <= f[2]

FEq(p, q) == p[1] * q[2] = q[1] * p[2]

\* C1: for N >= 1 vectors and max_pivots >= 1, greedy_farthest_pivots returns
\* exactly min(max_pivots, N) chunk indexes, no two equal, each in [0, N),
\* whether the iterations took the argmin pick or the random fallback.
C1_PivotCount ==
    Returned =>
        /\ DOMAIN pivots = 0..(Size(pivots) - 1)
        /\ Size(pivots) = Min(max_pivots_arg, N)
        /\ Size(pivots) >= 1
        /\ \A i, j \in DOMAIN pivots : i # j => pivots[i] # pivots[j]
        /\ \A i \in DOMAIN pivots : pivots[i] \in 0..(N - 1)

\* a corpus of identical vectors, where every iteration takes the fallback,
\* asked for more pivots than there are vectors
C1_Witness ==
    /\ pc = "assign"
    /\ N = MaxN
    /\ AllSame
    /\ max_pivots_arg > N
    /\ Size(pivots) = N

\* C2: every chunk is assigned one pivot local index in [0, P); that pivot has
\* the greatest similarity to the chunk of all pivots, it is the lowest such
\* local index, and the distance recorded is 1 minus that similarity.
C2_AssignArgmax ==
    Assigned =>
        /\ DOMAIN assign_idx = DOMAIN vecs
        /\ DOMAIN novelty_dist = DOMAIN vecs
        /\ \A i \in DOMAIN vecs :
            /\ assign_idx[i] \in 0..(Size(pivots) - 1)
            /\ \A j \in DOMAIN pivots : Sim(i, pivots[assign_idx[i]]) >= Sim(i, pivots[j])
            /\ \A j \in DOMAIN pivots :
                  j < assign_idx[i] => Sim(i, pivots[j]) < Sim(i, pivots[assign_idx[i]])
            /\ novelty_dist[i] = One - Sim(i, pivots[assign_idx[i]])

\* a chunk equally similar to two pivots, and a chunk whose pivot is not the first
C2_Witness ==
    /\ Assigned
    /\ \E i \in DOMAIN vecs : \E j, c \in DOMAIN pivots :
          /\ j < c
          /\ assign_idx[i] = j
          /\ Sim(i, pivots[j]) = Sim(i, pivots[c])
    /\ \E i \in DOMAIN vecs : assign_idx[i] > 0

\* C3 as stated: the pivot chosen i-th by the greedy loop is the pivot of local
\* index i, in the returned list and in the records.
C3_LocalIndexIsSelectionRank ==
    pc = "done" =>
        /\ \A i \in DOMAIN pivots : pivots[i] = sel[i]
        /\ \A c \in DOMAIN records :
              records[c].pivot_id = sel[records[c].pivot_local_index]

\* C3 amended: the pivot of local index i is the i-th smallest chunk index
\* among the pivots selected, and the records refer to pivots that way.
C3_LocalIndexIsAscendingRank ==
    /\ Returned =>
          /\ Range(pivots) = Range(sel)
          /\ \A i, j \in DOMAIN pivots : i < j => pivots[i] < pivots[j]
    /\ pc = "done" =>
          \A c \in DOMAIN records :
              /\ records[c].pivot_local_index = assign_idx[c]
              /\ records[c].pivot_id = pivots[records[c].pivot_local_index]
              /\ Cardinality({q \in Range(sel) : q < records[c].pivot_id})
                    = records[c].pivot_local_index

\* a run whose second pivot has a lower chunk index than its seed
C3_Witness ==
    /\ pc = "done"
    /\ Size(sel) >= 2
    /\ sel[0] > sel[1]
    /\ \E c \in DOMAIN records : records[c].pivot_id = sel[0]

KeyOrdered(a, b) ==
    \/ a.pivot_local_index < b.pivot_local_index
    \/ /\ a.pivot_local_index = b.pivot_local_index
       /\ a.band < b.band
    \/ /\ a.pivot_local_index = b.pivot_local_index
       /\ a.band = b.band
       /\ ~FLess(a.energy, b.energy)

\* C4 as stated: the records written one per line to the structured dataset are
\* in ascending pivot local index, then ascending band, then descending energy.
C4_JsonlSorted ==
    pc = "done" =>
        \A r \in DOMAIN jsonl :
            (r + 1) \in DOMAIN jsonl => KeyOrdered(jsonl[r], jsonl[r + 1])

\* C4 amended: the sorted frame, whose rows train.csv is written from, is in
\* that order and holds every record once; the records written one per line
\* to the structured dataset are in chunk id order.
C4_FrameSortedJsonlById ==
    /\ pc \in {"write", "done"} =>
          /\ DOMAIN df = DOMAIN records
          /\ \A c \in DOMAIN records : \E r \in DOMAIN df : df[r] = records[c]
          /\ \A r \in DOMAIN df :
                (r + 1) \in DOMAIN df => KeyOrdered(df[r], df[r + 1])
    /\ pc = "done" =>
          /\ DOMAIN jsonl = DOMAIN vecs
          /\ \A c \in DOMAIN jsonl : jsonl[c].id = c
          /\ \A r \in DOMAIN train_csv :
                /\ train_csv[r].text = df[r].id
                /\ train_csv[r].label = df[r].pivot_local_index

\* the sort moved a record, and ordered two records of one pivot and band by energy
C4_Witness ==
    /\ pc = "done"
    /\ df # records
    /\ \E r \in DOMAIN df :
          /\ (r + 1) \in DOMAIN df
          /\ df[r].pivot_local_index = df[r + 1].pivot_local_index
          /\ df[r].band = df[r + 1].band
          /\ FLess(df[r + 1].energy, df[r].energy)

\* both raw score arrays have max - min < 1e-8 (any two raw values of the
\* model that differ do so by at least 1 / (One * MaxN))
Degenerate ==
    /\ \A i, j \in DOMAIN vecs : novelty_dist[i] = novelty_dist[j]
    /\ \A i, j \in DOMAIN vecs : FEq(redundancy_sim[i], redundancy_sim[j])

\* C5: novelty, redundancy and energy of every chunk lie in [0, 1], and all
\* three are 0 for every chunk of a corpus whose raw values have no spread.
C5_ScoresInUnit ==
    Scored =>
        /\ \A i \in DOMAIN vecs :
              /\ InUnit(novelty_norm[i])
              /\ InUnit(redundancy_norm[i])
              /\ InUnit(energy[i])
              /\ FEq(energy[i],
                     <<novelty_norm[i][1] * (redundancy_norm[i][2] - redundancy_norm[i][1]),
                       novelty_norm[i][2] * redundancy_norm[i][2]>>)
        /\ Degenerate =>
              \A i \in DOMAIN vecs :
                  /\ novelty_norm[i][1] = 0
                  /\ redundancy_norm[i][1] = 0
                  /\ energy[i][1] = 0

\* a degenerate corpus of several chunks
C5_Witness ==
    /\ Scored
    /\ N >= 2
    /\ Degenerate
    /\ \A i \in DOMAIN vecs : energy[i][1] = 0

\* C6: within a pivot group a smaller distance never has a larger band.
C6_BandsMonotonic ==
    Banded =>
        \A a, b \in DOMAIN vecs :
            (assign_idx[a] = assign_idx[b] /\ novelty_dist[a] < novelty_dist[b])
                => band_ids[a] <= band_ids[b]

\* a group with two distances in two bands, banded by one cut at the median
C6_Witness ==
    /\ Banded
    /\ Size(quantiles) = 1
    /\ \E a, b \in DOMAIN vecs :
          /\ assign_idx[a] = assign_idx[b]
          /\ novelty_dist[a] < novelty_dist[b]
          /\ band_ids[a] < band_ids[b]

\* C7 as stated: a chunk that is a pivot has residual distance exactly 0.
C7_PivotDistanceZero ==
    Assigned => \A j \in DOMAIN pivots : novelty_dist[pivots[j]] = 0

\* C7 amended: a chunk that is a pivot has residual distance 0 up to the
\* tolerance of the embedder's normalisation, also when it is assigned to
\* another pivot than itself.
C7_PivotDistanceWithinTol ==
    Assigned =>
        \A j \in DOMAIN pivots :
            /\ novelty_dist[pivots[j]] <= NormTol
            /\ -novelty_dist[pivots[j]] <= NormTol

\* a pivot assigned to another pivot, and a pivot whose distance is not 0
C7_Witness ==
    /\ Assigned
    /\ \E j \in DOMAIN pivots : assign_idx[pivots[j]] # j
    /\ \E j \in DOMAIN pivots : novelty_dist[pivots[j]] # 0

\* C8: a corpus of one chunk gives one pivot, chunk 0, and one record, with
\* pivot_local_index 0, band 0, novelty 0, redundancy 0 and energy 0.
C8_SingleChunk ==
    (pc = "done" /\ N = 1) =>
        /\ pivots = Arr(<<0>>)
        /\ DOMAIN records = {0}
        /\ DOMAIN jsonl = {0}
        /\ records[0].id = 0
        /\ records[0].pivot_id = 0
        /\ records[0].pivot_local_index = 0
        /\ records[0].band = 0
        /\ records[0].novelty[1] = 0
        /\ records[0].redundancy[1] = 0
        /\ records[0].energy[1] = 0

C8_Witness == pc = "done" /\ N = 1 /\ jsonl = records

NearestOK ==
    \A i \in DOMAIN vecs :
        /\ \E p \in Range(sel) : nearest_sim[i] = Sim(i, p)
        /\ \A p \in Range(sel) : nearest_sim[i] >= Sim(i, p)

\* C9: in the greedy loop nearest_sim[i] is the greatest similarity of vector i
\* to a pivot chosen so far; the next pivot is the argmin of nearest_sim, or,
\* when that is a pivot already, a vector not chosen yet; the loop ends with
\* fewer than max_pivots pivots only when every vector is chosen.
C9_GreedyLoop ==
    [][ /\ pc' = "greedy_loop" => NearestOK'
        /\ (pc = "greedy_loop" /\ sel' # sel) =>
              /\ DOMAIN sel' = 0..Size(sel)
              /\ \A i \in DOMAIN sel : sel'[i] = sel[i]
              /\ IF ArgMin(nearest_sim) \notin Range(sel)
                 THEN sel'[Size(sel)] = ArgMin(nearest_sim)
                 ELSE sel'[Size(sel)] \in (DOMAIN vecs \ Range(sel))
        /\ (pc = "greedy_loop" /\ pc' # "greedy_loop" /\ Size(sel) < max_pivots) =>
              DOMAIN vecs \subseteq Range(sel)
      ]_vars

\* two pivots chosen, the loop still running
C9_Witness ==
    /\ pc = "greedy_loop"
    /\ Size(sel) = 2
    /\ it < max_pivots
    /\ NearestOK
    /\ \E i \in DOMAIN vecs : i \notin Range(sel) /\ nearest_sim[i] > Sim(i, sel[0])

\* the similarities of chunk i to the other chunks, descending
OtherSims(i) ==
    LET others == SortedSet(DOMAIN vecs \ {i})
    IN  DescVals([r \in DOMAIN others |-> Sim(i, others[r])])

\* C10: knn_redundancy returns for each chunk the mean of its min(K+1, N) - 1
\* highest similarities to other chunks, and 0 when N = 1.
C10_MeanOfNeighbours ==
    KnnDone =>
        \A i \in DOMAIN vecs :
            LET m == Min(knn_k + 1, N) - 1
            IN  IF m = 0
                THEN redundancy_sim[i][1] = 0
                ELSE redundancy_sim[i][1] * m = SumTo(OtherSims(i), m) * redundancy_sim[i][2]
====
